---------------------------- MODULE Spec2Model ----------------------------
(***************************************************************************)
(* Model of the Quikk HTTP client (src/unnamed/part_000) and of the SSR    *)
(* handler (src/packages/web/api/ssr.ts).                                  *)
(*                                                                         *)
(* Representation                                                          *)
(*   - an optional value (undefined / null or a value) is a sequence of    *)
(*     length at most one: None == <<>>, Some(x) == <<x>>;                 *)
(*   - URLs, header names and header values are TLA+ strings, built with   *)
(*     \o as the code builds them with join and template strings;          *)
(*   - a body text is a sequence of one-character strings, so that         *)
(*     JSON.parse is computed on the characters;                           *)
(*   - a JavaScript value (a request body, a decoded payload) is a record  *)
(*     [t |-> its type, v |-> the characters that denote it].              *)
(***************************************************************************)
EXTENDS Integers, Sequences, FiniteSets, TLC

VARIABLES this, calls, last_op, ssr

vars == <<this, calls, last_op, ssr>>

-----------------------------------------------------------------------------
(* Optional values and JavaScript truthiness *)

None == <<>>

Some(x) == <<x>>

\* `!!x` for a string-or-undefined value: undefined and "" are falsy
TruthyStr(o) == o # None /\ o[1] # ""

\* `!!x` for a number-or-undefined value: undefined and 0 are falsy
TruthyNum(o) == o # None /\ o[1] # 0

\* Array.prototype.join on strings
RECURSIVE Join(_, _)
Join(segs, sep) ==
  IF segs = <<>> THEN ""
  ELSE IF Len(segs) = 1 THEN segs[1]
  ELSE segs[1] \o sep \o Join(Tail(segs), sep)

\* Array.prototype.filter((x) => !!x) on string-or-undefined segments
RECURSIVE FilterTruthy(_)
FilterTruthy(segs) ==
  IF segs = <<>> THEN <<>>
  ELSE IF TruthyStr(segs[1]) THEN <<segs[1][1]>> \o FilterTruthy(Tail(segs))
  ELSE FilterTruthy(Tail(segs))

-----------------------------------------------------------------------------
(* JavaScript values *)

UndefinedV == [t |-> "undefined", v |-> <<>>]

NullV == [t |-> "null", v |-> <<>>]

StringV(chars) == [t |-> "string", v |-> chars]

NumberV(chars) == [t |-> "number", v |-> chars]

BoolV(chars) == [t |-> "boolean", v |-> chars]

ObjectV(chars) == [t |-> "object", v |-> chars]

c_null == <<"n", "u", "l", "l">>

c_true == <<"t", "r", "u", "e">>

c_false == <<"f", "a", "l", "s", "e">>

\* the truthiness `x ? .. : ..` and `x || ..` test
Truthy(x) ==
  CASE x.t = "undefined" -> FALSE
    [] x.t = "null" -> FALSE
    [] x.t = "boolean" -> x.v = c_true
    [] x.t = "number" -> x.v \notin {<<"0">>, <<"-", "0">>}
    [] x.t = "string" -> x.v # <<>>
    [] OTHER -> TRUE

\* `x || null`
OrNull(x) == IF Truthy(x) THEN x ELSE NullV

-----------------------------------------------------------------------------
(* JSON.parse on the characters of a text.  The grammar covers the literals *)
(* null, true and false, integers, strings without escapes, arrays and      *)
(* objects, with white space between tokens.                                *)

WS == {" ", "\n", "\t", "\r"}

Digits == {"0", "1", "2", "3", "4", "5", "6", "7", "8", "9"}

RECURSIVE SkipWs(_, _)
SkipWs(s, i) ==
  IF i <= Len(s) /\ s[i] \in WS THEN SkipWs(s, i + 1) ELSE i

\* the characters w stand in s at position i
Lit(s, i, w) ==
  i + Len(w) - 1 <= Len(s) /\ SubSeq(s, i, i + Len(w) - 1) = w

RECURSIVE DigitsEnd(_, _)
DigitsEnd(s, i) ==
  IF i <= Len(s) /\ s[i] \in Digits THEN DigitsEnd(s, i + 1) ELSE i

\* the position after the integer that starts at i, 0 when there is none
NumEnd(s, i) ==
  LET j == IF s[i] = "-" THEN i + 1 ELSE i
  IN  IF j > Len(s) \/ s[j] \notin Digits THEN 0
      ELSE IF s[j] = "0" THEN j + 1
      ELSE DigitsEnd(s, j)

\* the position after the closing quote of the string whose opening quote
\* is at i - 1, 0 when the string is not closed
RECURSIVE StrEnd(_, _)
StrEnd(s, i) ==
  IF i > Len(s) THEN 0
  ELSE IF s[i] = "\"" THEN i + 1
  ELSE IF s[i] = "\\" THEN 0
  ELSE StrEnd(s, i + 1)

RECURSIVE ValueEnd(_, _)
RECURSIVE ElemsEnd(_, _, _)
RECURSIVE MembersEnd(_, _, _)

\* the position after the JSON value that starts at i, 0 when there is none
ValueEnd(s, i) ==
  IF i > Len(s) THEN 0
  ELSE IF Lit(s, i, c_null) THEN i + 4
  ELSE IF Lit(s, i, c_true) THEN i + 4
  ELSE IF Lit(s, i, c_false) THEN i + 5
  ELSE IF s[i] = "\"" THEN StrEnd(s, i + 1)
  ELSE IF s[i] \in Digits \cup {"-"} THEN NumEnd(s, i)
  ELSE IF s[i] = "[" THEN ElemsEnd(s, SkipWs(s, i + 1), TRUE)
  ELSE IF s[i] = "{" THEN MembersEnd(s, SkipWs(s, i + 1), TRUE)
  ELSE 0

ElemsEnd(s, i, first) ==
  IF i > Len(s) THEN 0
  ELSE IF first /\ s[i] = "]" THEN i + 1
  ELSE LET e == ValueEnd(s, i)
           j == SkipWs(s, e)
       IN  IF e = 0 \/ j > Len(s) THEN 0
           ELSE IF s[j] = "]" THEN j + 1
           ELSE IF s[j] = "," THEN ElemsEnd(s, SkipWs(s, j + 1), FALSE)
           ELSE 0

MembersEnd(s, i, first) ==
  IF i > Len(s) THEN 0
  ELSE IF first /\ s[i] = "}" THEN i + 1
  ELSE IF s[i] # "\"" THEN 0
  ELSE LET q == StrEnd(s, i + 1)
           k == IF q = 0 THEN 0 ELSE SkipWs(s, q)
           e == IF k = 0 \/ k > Len(s) \/ s[k] # ":" THEN 0
                ELSE ValueEnd(s, SkipWs(s, k + 1))
           j == SkipWs(s, e)
       IN  IF q = 0 \/ e = 0 \/ j > Len(s) THEN 0
           ELSE IF s[j] = "}" THEN j + 1
           ELSE IF s[j] = "," THEN MembersEnd(s, SkipWs(s, j + 1), FALSE)
           ELSE 0

\* JSON.parse(text) throws a SyntaxError
JSONThrows(text) ==
  LET e == ValueEnd(text, SkipWs(text, 1))
  IN  e = 0 \/ SkipWs(text, e) # Len(text) + 1

\* the value JSON.parse(text) returns when it does not throw
JSONParse(text) ==
  LET i == SkipWs(text, 1)
      e == ValueEnd(text, i)
      w == SubSeq(text, i, e - 1)
  IN  CASE w = c_null -> NullV
        [] w \in {c_true, c_false} -> BoolV(w)
        [] w[1] = "\"" -> StringV(SubSeq(w, 2, Len(w) - 1))
        [] w[1] \in Digits \cup {"-"} -> NumberV(w)
        [] OTHER -> ObjectV(w)

\* JSON.stringify(x) for a value that is not undefined
JSONStringify(x) ==
  CASE x.t = "null" -> c_null
    [] x.t = "string" -> <<"\"">> \o x.v \o <<"\"">>
    [] OTHER -> x.v

-----------------------------------------------------------------------------
(* String.prototype.toUpperCase on the characters of a method name *)

LowerCase ==
  <<"a", "b", "c", "d", "e", "f", "g", "h", "i", "j", "k", "l", "m",
    "n", "o", "p", "q", "r", "s", "t", "u", "v", "w", "x", "y", "z">>

UpperCase ==
  <<"A", "B", "C", "D", "E", "F", "G", "H", "I", "J", "K", "L", "M",
    "N", "O", "P", "Q", "R", "S", "T", "U", "V", "W", "X", "Y", "Z">>

UpperChar(ch) ==
  IF \E i \in 1..Len(LowerCase) : LowerCase[i] = ch
  THEN UpperCase[CHOOSE i \in 1..Len(LowerCase) : LowerCase[i] = ch]
  ELSE ch

toUpperCase(chars) == [i \in 1..Len(chars) |-> UpperChar(chars[i])]

m_get == <<"g", "e", "t">>

m_post == <<"p", "o", "s", "t">>

m_patch == <<"p", "a", "t", "c", "h">>

m_delete == <<"d", "e", "l", "e", "t", "e">>

m_search == <<"s", "e", "a", "r", "c", "h">>

m_GET == <<"G", "E", "T">>

-----------------------------------------------------------------------------
(* The client: constructor, setApiToken, clearToken *)

\* the join without the filter: an absent segment joins as ""
api_url_unfiltered(protocol, base_url, base_port, base_path, api_version) ==
  Join(<<IF TruthyNum(base_port)
         THEN Join(<<protocol, "//" \o base_url, ToString(base_port[1])>>, ":")
         ELSE Join(<<protocol, "//" \o base_url>>, ":"),
         IF base_path = None THEN "" ELSE base_path[1],
         IF api_version = None THEN "" ELSE api_version[1]>>, "/")

\* this.api_url: [protocol://host[:port], path, version], the falsy ones
\* filtered out, joined with "/"
api_url(protocol, base_url, base_port, base_path, api_version) ==
  Join(FilterTruthy(
         <<Some(IF TruthyNum(base_port)
                THEN Join(<<protocol, "//" \o base_url,
                            ToString(base_port[1])>>, ":")
                ELSE Join(<<protocol, "//" \o base_url>>, ":")),
           base_path,
           api_version>>), "/")

\* the constructor: the fields of the new instance
Quikk(config) ==
  LET protocol == IF TruthyStr(config.protocol) THEN config.protocol[1]
                  ELSE "https"
      base_url == config.base_url
      base_port == config.base_port
      base_path == config.base_path
      api_version == config.api_version
  IN  [config |-> config,
       protocol |-> protocol,
       base_url |-> base_url,
       base_port |-> base_port,
       base_path |-> base_path,
       api_token |-> config.api_token,
       api_token_type |-> IF TruthyStr(config.api_token_type)
                          THEN config.api_token_type[1] ELSE "Basic",
       api_version |-> api_version,
       api_url |-> api_url(protocol, base_url, base_port, base_path,
                           api_version)]

\* a setter that extends the stored token instead of replacing it
setApiToken_appending(self, token) ==
  [self EXCEPT !.api_token = IF @ = None THEN Some(token)
                             ELSE Some(@[1] \o token)]

\* the instance after setApiToken(token)
setApiToken(self, token) == [self EXCEPT !.api_token = Some(token)]

\* the instance after clearToken()
clearToken(self) == [self EXCEPT !.api_token = None]

-----------------------------------------------------------------------------
(* fetch: the request handed to the network layer *)

EmptyObject == [k \in {} |-> ""]

\* { ...a, ...b }: the keys of b replace those of a
Spread(a, b) == b @@ a

NoBody == [kind |-> "undefined", text |-> <<>>, fields |-> <<>>]

TextBody(chars) == [kind |-> "text", text |-> chars, fields |-> <<>>]

FormBody(fields) == [kind |-> "form", text |-> <<>>, fields |-> fields]

\* formPayload: every field of formData appended in key order
formPayload(formData) ==
  IF formData # None
  THEN [i \in 1..Len(formData[1]) |-> formData[1][i]]
  ELSE <<>>

\* the URL: api_url/path, then ?k=v&k=v when there are parameters
fetch_url(self, path, parameters) ==
  LET ps == IF parameters = None THEN <<>> ELSE parameters[1]
  IN  IF Len(ps) > 0
      THEN Join(<<Join(<<self.api_url, path>>, "/"),
                  Join([i \in 1..Len(ps) |->
                          Join(<<ps[i][1], ps[i][2]>>, "=")], "&")>>, "?")
      ELSE Join(<<self.api_url, path>>, "/")

fetch_method(method) ==
  IF method # None THEN toUpperCase(method[1]) ELSE m_GET

\* the merge with the defaults spread last, so that they win
fetch_headers_defaults_last(self, headers, formData) ==
  Spread(Spread(IF headers # None THEN headers[1] ELSE EmptyObject,
                IF formData # None THEN EmptyObject
                ELSE "Content-Type" :> "application/json"),
         IF TruthyStr(self.api_token)
         THEN "Authorization" :>
                (self.api_token_type \o " " \o self.api_token[1])
         ELSE EmptyObject)

fetch_headers(self, headers, formData) ==
  Spread(Spread(IF formData # None THEN EmptyObject
                ELSE "Content-Type" :> "application/json",
                IF TruthyStr(self.api_token)
                THEN "Authorization" :>
                       (self.api_token_type \o " " \o self.api_token[1])
                ELSE EmptyObject),
         IF headers # None THEN headers[1] ELSE EmptyObject)

fetch_body(body, formData) ==
  IF formData # None THEN FormBody(formPayload(formData))
  ELSE IF Truthy(body)
       THEN IF body.t = "string" THEN TextBody(body.v)
            ELSE TextBody(JSONStringify(body))
       ELSE NoBody

\* the arguments of the one network call that fetch(path, opts) makes
fetch(self, path, opts) ==
  [url |-> fetch_url(self, path, opts.parameters),
   method |-> fetch_method(opts.method),
   headers |-> fetch_headers(self, opts.headers, opts.formData),
   body |-> fetch_body(opts.body, opts.formData)]

-----------------------------------------------------------------------------
(* The verb methods: what each forwards to fetch *)

post_opts(args) ==
  [method |-> Some(m_post), headers |-> args.headers,
   parameters |-> args.parameters, body |-> args.body,
   formData |-> args.formData]

search_opts(args) ==
  [method |-> Some(m_search), headers |-> args.headers,
   parameters |-> args.parameters, body |-> args.body,
   formData |-> args.formData]

get_opts(args) ==
  [method |-> Some(m_get), headers |-> args.headers,
   parameters |-> args.parameters, body |-> UndefinedV,
   formData |-> None]

\* a patch that forgets to pass the body on
patch_opts_without_body(args) ==
  [method |-> Some(m_patch), headers |-> args.headers,
   parameters |-> args.parameters, body |-> UndefinedV,
   formData |-> args.formData]

patch_opts(args) ==
  [method |-> Some(m_patch), headers |-> args.headers,
   parameters |-> args.parameters, body |-> args.body,
   formData |-> args.formData]

delete_opts(args) ==
  [method |-> Some(m_delete), headers |-> args.headers,
   parameters |-> args.parameters, body |-> UndefinedV,
   formData |-> None]

\* a direct call of the public fetch passes the caller's options as they are
Forward(kind, args) ==
  CASE kind = "post" -> post_opts(args)
    [] kind = "search" -> search_opts(args)
    [] kind = "get" -> get_opts(args)
    [] kind = "patch" -> patch_opts(args)
    [] kind = "delete" -> delete_opts(args)
    [] OTHER -> args

-----------------------------------------------------------------------------
(* The verb methods: the result built from the response *)

\* Response.ok of the network layer: the status is in 200..299
ResponseOk(resp) == resp.status >= 200 /\ resp.status <= 299

\* a decode whose catch gives up at once
Decode_without_text(responseBody) ==
  IF JSONThrows(responseBody) THEN NullV
  ELSE OrNull(JSONParse(responseBody))

\* try JSON.parse(text) || null, catch: text || null
Decode(responseBody) ==
  IF JSONThrows(responseBody) THEN OrNull(StringV(responseBody))
  ELSE OrNull(JSONParse(responseBody))

post_result(resp) ==
  IF ResponseOk(resp)
  THEN [ok |-> TRUE, data |-> Decode(resp.body), error |-> None]
  ELSE [ok |-> FALSE, data |-> Decode(resp.body),
        error |-> Some(resp.statusText), status |-> resp.status]

search_result(resp) ==
  IF ResponseOk(resp)
  THEN [ok |-> TRUE, data |-> Decode(resp.body), error |-> None]
  ELSE [ok |-> FALSE, data |-> Decode(resp.body),
        error |-> Some(resp.statusText), status |-> resp.status]

get_result(resp) ==
  IF ResponseOk(resp)
  THEN [ok |-> TRUE, data |-> Decode(resp.body), error |-> None]
  ELSE [ok |-> FALSE, data |-> Decode(resp.body),
        error |-> Some(resp.statusText), status |-> resp.status]

patch_result(resp) ==
  IF ResponseOk(resp)
  THEN [ok |-> TRUE, data |-> Decode(resp.body), error |-> None]
  ELSE [ok |-> FALSE, data |-> Decode(resp.body),
        error |-> Some(resp.statusText), status |-> resp.status]

\* a failure branch that leaves the status out
delete_result_without_status(resp) ==
  IF ResponseOk(resp)
  THEN [ok |-> TRUE, data |-> Decode(resp.body), error |-> None]
  ELSE [ok |-> FALSE, data |-> Decode(resp.body),
        error |-> Some(resp.statusText)]

delete_result(resp) ==
  IF ResponseOk(resp)
  THEN [ok |-> TRUE, data |-> Decode(resp.body), error |-> None]
  ELSE [ok |-> FALSE, data |-> Decode(resp.body),
        error |-> Some(resp.statusText), status |-> resp.status]

\* what the call returns once the response is there
Result(kind, resp) ==
  CASE kind = "post" -> post_result(resp)
    [] kind = "search" -> search_result(resp)
    [] kind = "get" -> get_result(resp)
    [] kind = "patch" -> patch_result(resp)
    [] kind = "delete" -> delete_result(resp)
    [] OTHER -> resp

-----------------------------------------------------------------------------
(* The state of the client and of its calls *)

MaxCalls == 2

Calls == 1..MaxCalls

NoArgs ==
  [method |-> None, headers |-> None, parameters |-> None,
   body |-> UndefinedV, formData |-> None]

IdleCall ==
  [pc |-> "idle", kind |-> "", path |-> "", args |-> NoArgs,
   request |-> None, issued_token |-> None, response |-> None,
   result |-> None]

Op(name, arg) == [op |-> name, arg |-> arg]

\* a setter over headers shared with the calls in flight: their requests
\* are rebuilt from the new token
SetApiToken_shared_headers(t) ==
  /\ this' = setApiToken(this, t)
  /\ calls' = [c \in Calls |->
       IF calls[c].pc \in {"inflight", "responded"}
       THEN [calls[c] EXCEPT !.request =
               Some(fetch(this', calls[c].path,
                          Forward(calls[c].kind, calls[c].args)))]
       ELSE calls[c]]
  /\ last_op' = Op("setApiToken", t)
  /\ UNCHANGED ssr

\* setApiToken(t): one assignment, no call
SetApiToken(t) ==
  /\ this' = setApiToken(this, t)
  /\ last_op' = Op("setApiToken", t)
  /\ UNCHANGED <<calls, ssr>>

\* clearToken(): one assignment, no call
ClearToken ==
  /\ this' = clearToken(this)
  /\ last_op' = Op("clearToken", "")
  /\ UNCHANGED <<calls, ssr>>

\* a verb method or fetch is called: everything up to `await fetch(...)`
\* runs at once, so the request is built from the instance as it is now
Call(c, kind, path, args) ==
  /\ calls[c].pc = "idle"
  /\ calls' = [calls EXCEPT ![c] =
       [pc |-> "inflight", kind |-> kind, path |-> path, args |-> args,
        request |-> Some(fetch(this, path, Forward(kind, args))),
        issued_token |-> this.api_token,
        response |-> None, result |-> None]]
  /\ last_op' = Op("call", kind)
  /\ UNCHANGED <<this, ssr>>

\* the network layer resolves the call with a response
Respond(c, resp) ==
  /\ calls[c].pc = "inflight"
  /\ calls' = [calls EXCEPT ![c].pc = "responded",
                            ![c].response = Some(resp)]
  /\ last_op' = Op("respond", "")
  /\ UNCHANGED <<this, ssr>>

\* the network layer rejects the call; nothing catches the rejection
NetworkFail(c) ==
  /\ calls[c].pc = "inflight"
  /\ calls' = [calls EXCEPT ![c].pc = "rejected"]
  /\ last_op' = Op("reject", "")
  /\ UNCHANGED <<this, ssr>>

\* the body is read and the call returns its result
Settle(c) ==
  /\ calls[c].pc = "responded"
  /\ calls' = [calls EXCEPT ![c].pc = "resolved",
       ![c].result = Some(Result(calls[c].kind, calls[c].response[1]))]
  /\ last_op' = Op("settle", "")
  /\ UNCHANGED <<this, ssr>>

-----------------------------------------------------------------------------
(* The SSR handler *)

RedirectStatus == 302

EmptyStatus == 200

\* a fresh ServerResponse
NewResponse ==
  [statusCode |-> 200, headers |-> EmptyObject, body |-> None,
   sent |-> FALSE, finals |-> <<>>, late |-> <<>>, threw |-> FALSE]

\* response.statusCode = code; after the headers are sent it changes nothing
res_statusCode(res, code) ==
  IF res.threw THEN res
  ELSE IF res.sent THEN [res EXCEPT !.late = Append(@, "statusCode")]
  ELSE [res EXCEPT !.statusCode = code]

\* response.status(code)
res_status(res, code) == res_statusCode(res, code)

\* response.setHeader(k, v); after the headers are sent it throws
res_setHeader(res, k, v) ==
  IF res.threw THEN res
  ELSE IF res.sent
  THEN [res EXCEPT !.late = Append(@, "setHeader"), !.threw = TRUE]
  ELSE [res EXCEPT !.headers = Spread(@, k :> v)]

\* response.end(body), also under send and redirect
res_finish(res, how, body) ==
  IF res.threw THEN res
  ELSE IF res.sent
  THEN [res EXCEPT !.late = Append(@, how), !.finals = Append(@, how)]
  ELSE [res EXCEPT !.body = body, !.sent = TRUE,
                   !.finals = Append(@, how)]

res_end(res, body) == res_finish(res, "end", body)

res_send(res, body) == res_finish(res, "send", body)

res_redirect(res, code, url) ==
  res_finish(res_setHeader(res_statusCode(res, code), "Location", url),
             "redirect", None)

\* a || b on strings that may be undefined
OrStr(a, b) == IF TruthyStr(a) THEN a ELSE b

\* lines 8-27: the page context handed to renderPage
pageContextInit(request) ==
  LET origin == OrStr(request.headers.host,
                      OrStr(request.headers.origin, Some("")))
      referer == OrStr(request.headers.referer, origin)
  IN  [urlOriginal |-> OrStr(request.url, origin)[1],
       origin |-> origin[1],
       referer |-> OrStr(origin, referer)[1],
       cookies |-> JSONStringify(IF request.cookies # None
                                 THEN request.cookies[1]
                                 ELSE StringV(<<"{", "}">>))]

\* lines 30-53: what the handler does to the response once renderPage is back
respond(res, pageContext) ==
  LET httpResponse == pageContext.httpResponse
  IN  IF TruthyStr(pageContext.redirectTo)
      THEN res_redirect(res, RedirectStatus, pageContext.redirectTo[1])
      ELSE IF httpResponse = None
      THEN res_end(res_statusCode(res, EmptyStatus), None)
      ELSE LET h == httpResponse[1]
               r1 == res_send(res_setHeader(res_status(res, h.statusCode),
                                            "Content-Type", h.contentType),
                              Some(h.body))
           IN  res_end(res_setHeader(res_statusCode(r1, h.statusCode),
                                     "content-type", h.contentType),
                       Some(h.body))

SsrIdle ==
  [pc |-> "idle", request |-> None, init |-> None, pageContext |-> None,
   response |-> NewResponse]

\* the handler is entered and runs to `await renderPage(...)`
HandlerStart(request) ==
  /\ ssr.pc = "idle"
  /\ ssr' = [ssr EXCEPT !.pc = "rendering", !.request = Some(request),
                        !.init = Some(pageContextInit(request))]
  /\ last_op' = Op("handler", "")
  /\ UNCHANGED <<this, calls>>

\* renderPage resolves and the handler runs to its end
HandlerResume(pageContext) ==
  /\ ssr.pc = "rendering"
  /\ LET res == respond(ssr.response, pageContext)
     IN  ssr' = [ssr EXCEPT !.pc = IF res.threw THEN "threw" ELSE "returned",
                            !.pageContext = Some(pageContext),
                            !.response = res]
  /\ last_op' = Op("renderPage", "")
  /\ UNCHANGED <<this, calls>>

-----------------------------------------------------------------------------
(* Inputs *)

\* a QuikkConfig: protocol, host, port, path, token, scheme, version
Config(p, h, n, b, t, s, v) ==
  [protocol |-> p, base_url |-> h, base_port |-> n, base_path |-> b,
   api_token |-> t, api_token_type |-> s, api_version |-> v]

\* every shape of configuration: each optional part absent, empty or given
AllConfigs ==
  {Config(p, h, n, b, t, s, v) :
     p \in {None, Some("http"), Some("https")},
     h \in {"api.test", ""},
     n \in {None, Some(0), Some(8080)},
     b \in {None, Some(""), Some("api")},
     t \in {None, Some("t0")},
     s \in {None, Some("Bearer")},
     v \in {None, Some(""), Some("v1")}}

\* two configurations, without and with a token
SomeConfigs ==
  {Config(None, "api.test", None, None, t, None, Some("v1")) :
     t \in {None, Some("t0")}}

\* every token and scheme a configuration can carry
TokenConfigs ==
  {Config(None, "api.test", None, None, t, s, None) :
     t \in {None, Some(""), Some("tok")},
     s \in {None, Some("Bearer")}}

c_raw == <<"r", "a", "w">>

c_obj == <<"{", "\"", "q", "\"", ":", "1", "}">>

CallerHeaders ==
  {None,
   Some("X-Id" :> "7"),
   Some(("Authorization" :> "Custom abc") @@ ("Content-Type" :> "text/plain"))}

CallerBodies ==
  {UndefinedV, NullV, NumberV(<<"0">>), BoolV(c_false), StringV(<<>>),
   StringV(c_raw), ObjectV(c_obj)}

CallerForms ==
  {None, Some(<<>>), Some(<<<<"file", "blob">>, <<"name", "a.txt">>>>)}

CallerParameters ==
  {None, Some(<<>>), Some(<<<<"q", "x">>, <<"page", "2">>>>)}

CallerMethods == {None, Some(<<"p", "u", "t">>)}

Verbs == {"get", "post", "patch", "delete", "search"}

Kinds == Verbs \cup {"fetch"}

\* every shape of per-call options
AllArgs ==
  [method : CallerMethods, headers : CallerHeaders,
   parameters : CallerParameters, body : CallerBodies,
   formData : CallerForms]

\* the options of the concurrent calls: with and without the caller's own
\* Authorization header
FewArgs ==
  {[NoArgs EXCEPT !.headers = h, !.body = ObjectV(c_obj)] :
     h \in {None, Some("Authorization" :> "Custom abc")}}

BodyTexts ==
  {<<>>,
   <<" ">>,
   <<"0">>,
   <<"7">>,
   c_false,
   c_true,
   c_null,
   <<"\"", "\"">>,
   <<"\"", "h", "i", "\"">>,
   <<"[", "]">>,
   <<"{", "\"", "a", "\"", ":", "1", "}">>,
   <<" ", "{", "\"", "a", "\"", ":", " ", "[", "1", ",", "n", "u", "l", "l",
     "]", "}", "\n">>,
   <<"n", "o", "t", " ", "f", "o", "u", "n", "d">>,
   <<"{", "\"", "a", "\"", ":">>}

Statuses ==
  {[status |-> 200, statusText |-> "OK"],
   [status |-> 204, statusText |-> "No Content"],
   [status |-> 404, statusText |-> "Not Found"],
   [status |-> 500, statusText |-> ""]}

AllResponses ==
  {[status |-> st.status, statusText |-> st.statusText, body |-> b] :
     st \in Statuses, b \in BodyTexts}

OneResponse == [status |-> 200, statusText |-> "OK", body |-> c_obj]

SsrRequests ==
  [url : {None, Some(""), Some("/about")},
   headers : [host : {None, Some("inkbyte.test")},
              origin : {None, Some("https://inkbyte.test")},
              referer : {None, Some("https://ref.test/")}],
   cookies : {None, Some(ObjectV(c_obj))}]

PageContexts ==
  [redirectTo : {None, Some(""), Some("/login")},
   httpResponse :
     {None,
      Some([body |-> "<html>", statusCode |-> 200,
            contentType |-> "text/html"]),
      Some([body |-> "missing", statusCode |-> 404,
            contentType |-> "text/plain"])}]

-----------------------------------------------------------------------------
(* Specifications *)

InitWith(configs) ==
  /\ this \in {Quikk(config) : config \in configs}
  /\ calls = [c \in Calls |-> IdleCall]
  /\ last_op = Op("new", "")
  /\ ssr = SsrIdle

\* concurrent calls interleaved with token changes
Init == InitWith(SomeConfigs)

Next ==
  \/ SetApiToken("t1")
  \/ ClearToken
  \/ \E c \in Calls, args \in FewArgs : Call(c, "post", "items", args)
  \/ \E c \in Calls : Respond(c, OneResponse)
  \/ \E c \in Calls : Settle(c)

Spec == Init /\ [][Next]_vars

\* one call of any method with any options, under any token
InitRequest == InitWith(TokenConfigs)

NextRequest ==
  \/ \E kind \in Kinds, args \in AllArgs : Call(1, kind, "items", args)
  \/ Respond(1, OneResponse)
  \/ Settle(1)

SpecRequest == InitRequest /\ [][NextRequest]_vars

\* one call of any verb, answered by any response or by a network failure
InitDecode == InitWith(SomeConfigs)

NextDecode ==
  \/ \E kind \in Verbs : Call(1, kind, "items", NoArgs)
  \/ \E resp \in AllResponses : Respond(1, resp)
  \/ NetworkFail(1)
  \/ Settle(1)

SpecDecode == InitDecode /\ [][NextDecode]_vars

\* any configuration, then token changes and a call
InitConfig == InitWith(AllConfigs)

NextConfig ==
  \/ SetApiToken("t1")
  \/ ClearToken
  \/ Call(1, "get", "items", NoArgs)
  \/ Respond(1, OneResponse)
  \/ Settle(1)

SpecConfig == InitConfig /\ [][NextConfig]_vars

\* one request through the SSR handler
InitSsr == InitWith(SomeConfigs)

NextSsr ==
  \/ \E request \in SsrRequests : HandlerStart(request)
  \/ \E pageContext \in PageContexts : HandlerResume(pageContext)

SpecSsr == InitSsr /\ [][NextSsr]_vars

-----------------------------------------------------------------------------
(* Properties *)

Issued(c) == calls[c].pc # "idle"

InFlight(c) == calls[c].pc \in {"inflight", "responded"}

Resolved(c) == calls[c].pc = "resolved"

HeadersOf(c) == calls[c].request[1].headers

CallerHeadersOf(c) ==
  IF calls[c].args.headers = None THEN EmptyObject
  ELSE calls[c].args.headers[1]

\* C1: while a call is in flight, its Authorization header is the one built
\* from the token that was stored when the call was issued (or the caller's
\* own Authorization header), whatever setApiToken and clearToken did since.
C1_InFlightKeepsIssueToken ==
  \A c \in Calls :
    InFlight(c) =>
      LET h == HeadersOf(c)
          tok == calls[c].issued_token
      IN  IF "Authorization" \in DOMAIN CallerHeadersOf(c)
          THEN h["Authorization"] = CallerHeadersOf(c)["Authorization"]
          ELSE IF tok = None
          THEN "Authorization" \notin DOMAIN h
          ELSE /\ "Authorization" \in DOMAIN h
               /\ h["Authorization"] = this.api_token_type \o " " \o tok[1]

\* a call in flight whose token was swapped since, beside a call issued
\* after the swap that carries the new token
C1_Witness ==
  \E c, d \in Calls :
    /\ InFlight(c) /\ InFlight(d)
    /\ calls[c].args.headers = None /\ calls[d].args.headers = None
    /\ calls[c].issued_token = Some("t0")
    /\ this.api_token = Some("t1")
    /\ HeadersOf(c)["Authorization"] = "Basic t0"
    /\ HeadersOf(d)["Authorization"] = "Basic t1"

\* C2: the data of a resolved verb call whose body text JSON.parse accepts
\* is the parsed value, whatever the status, falsy values included.
C2_DataIsParsedValue ==
  \A c \in Calls :
    (Resolved(c) /\ ~JSONThrows(calls[c].response[1].body)) =>
      calls[c].result[1].data = JSONParse(calls[c].response[1].body)

C4_RawTextOrNull ==
  \A c \in Calls :
    (Resolved(c) /\ JSONThrows(calls[c].response[1].body)) =>
      calls[c].result[1].data =
        IF calls[c].response[1].body = <<>> THEN NullV
        ELSE StringV(calls[c].response[1].body)

\* a failed response with a plain-text body came back with the text as data
C4_Witness ==
  \E c \in Calls :
    /\ Resolved(c)
    /\ calls[c].response[1].status = 404
    /\ calls[c].response[1].body =
         <<"n", "o", "t", " ", "f", "o", "u", "n", "d">>
    /\ calls[c].result[1].data.t = "string"
    /\ calls[c].result[1].data.v = calls[c].response[1].body

\* protocol://host[:port], then the path, then the version, the absent and
\* the empty left out, joined with "/"
ExpectedUrl(config, withPort) ==
  LET proto == IF config.protocol = None THEN "https"
               ELSE config.protocol[1]
      authority == proto \o "://" \o config.base_url \o
                   (IF withPort THEN ":" \o ToString(config.base_port[1])
                    ELSE "")
      path == IF config.base_path \in {None, Some("")} THEN <<>>
              ELSE config.base_path
      version == IF config.api_version \in {None, Some("")} THEN <<>>
                 ELSE config.api_version
  IN  Join(<<authority>> \o path \o version, "/")

\* C5 as stated: the base URL carries :port whenever a port is given.
C5_PortWheneverGiven ==
  this.api_url = ExpectedUrl(this.config, this.config.base_port # None)

\* C5, amended: the base URL is protocol://host, followed by :port when a
\* port other than 0 is given, then base_path, then api_version, absent and
\* empty segments left out, joined with "/"; protocol defaults to https; no
\* operation changes the base URL.
C5_BaseUrl ==
  [][/\ this.api_url =
          ExpectedUrl(this.config,
                      this.config.base_port \notin {None, Some(0)})
     /\ this'.config = this.config
     /\ this'.api_url = this.api_url]_vars

\* a configuration with port, empty path and version, after a token change
\* and a completed call
C5_Witness ==
  /\ this.config.protocol = None
  /\ this.config.base_port = Some(8080)
  /\ this.config.base_path = Some("")
  /\ this.config.api_version = Some("v1")
  /\ this.api_url = "https://api.test:8080/v1"
  /\ this.api_token = Some("t1")
  /\ Resolved(1)

\* the merge of the default headers and the caller's, the caller's winning
MergedHeaders(c, withAuth) ==
  LET tok == calls[c].issued_token
      scheme == IF this.config.api_token_type = None THEN "Basic"
                ELSE this.config.api_token_type[1]
      caller == CallerHeadersOf(c)
      names == DOMAIN caller
                 \cup (IF withAuth THEN {"Authorization"} ELSE {})
                 \cup (IF calls[c].request[1].body.kind = "form" THEN {}
                       ELSE {"Content-Type"})
  IN  [k \in names |->
         IF k \in DOMAIN caller THEN caller[k]
         ELSE IF k = "Authorization" THEN scheme \o " " \o tok[1]
         ELSE "application/json"]

\* C6 as stated: the Authorization default is there whenever a token is set.
C6_AuthWheneverTokenSet ==
  \A c \in Calls :
    Issued(c) =>
      HeadersOf(c) = MergedHeaders(c, calls[c].issued_token # None)

\* C6, amended: the request headers are Content-Type application/json
\* (exactly when no form-data is sent), then Authorization "<scheme> <token>"
\* (exactly when the stored token is a non-empty string; scheme defaults to
\* Basic), then the caller's headers, each later one replacing an earlier
\* one of the same key.
C6_HeaderMerge ==
  \A c \in Calls :
    Issued(c) =>
      HeadersOf(c) =
        MergedHeaders(c, calls[c].issued_token \notin {None, Some("")})

\* the caller's Authorization and Content-Type replaced the defaults of a
\* call made with a token, and a form-data call carries no JSON content type
C6_Witness ==
  /\ Issued(1)
  /\ calls[1].issued_token = Some("tok")
  /\ calls[1].kind = "fetch"
  /\ calls[1].args.formData # None
  /\ calls[1].args.headers = Some("X-Id" :> "7")
  /\ DOMAIN HeadersOf(1) = {"X-Id", "Authorization"}
  /\ HeadersOf(1)["Authorization"] = "Bearer tok"

VerbMethod(kind) ==
  CASE kind = "get" -> <<"G", "E", "T">>
    [] kind = "post" -> <<"P", "O", "S", "T">>
    [] kind = "patch" -> <<"P", "A", "T", "C", "H">>
    [] kind = "delete" -> <<"D", "E", "L", "E", "T", "E">>
    [] kind = "search" -> <<"S", "E", "A", "R", "C", "H">>

\* the request fetch builds when the method and these options reach it
RequestFor(c, body, formData) ==
  [fetch(this, calls[c].path,
         [method |-> None, headers |-> calls[c].args.headers,
          parameters |-> calls[c].args.parameters,
          body |-> body, formData |-> formData])
     EXCEPT !.method = VerbMethod(calls[c].kind)]

\* C7 as stated: every verb forwards headers, parameters, body and form-data.
C7_EveryVerbForwardsAll ==
  \A c \in Calls :
    (Issued(c) /\ calls[c].kind \in Verbs) =>
      calls[c].request[1] =
        RequestFor(c, calls[c].args.body, calls[c].args.formData)

\* C7, amended: each verb method issues its request with its own name
\* uppercased and forwards the caller's headers and query parameters; post,
\* patch and search also forward body and form-data, while get and delete
\* forward neither, so a body or form-data passed to them is not sent.
C7_VerbForwarding ==
  \A c \in Calls :
    (Issued(c) /\ calls[c].kind \in Verbs) =>
      calls[c].request[1] =
        IF calls[c].kind \in {"post", "patch", "search"}
        THEN RequestFor(c, calls[c].args.body, calls[c].args.formData)
        ELSE RequestFor(c, UndefinedV, None)

\* a get called with a body and form-data sent neither
C7_Witness ==
  /\ Issued(1)
  /\ calls[1].kind = "get"
  /\ calls[1].args.body = ObjectV(c_obj)
  /\ calls[1].args.formData # None
  /\ calls[1].request[1].method = <<"G", "E", "T">>
  /\ calls[1].request[1].body = NoBody
  /\ calls[1].request[1].url = "https://api.test/items?q=x&page=2"

\* C8: the request body is the multipart payload when form-data is given,
\* else the JSON text of a body that is given and is not a string (0, false
\* and null included), else the string itself, else absent; the JSON
\* Content-Type default is left out exactly when the multipart payload is
\* sent.
C8_RequestBody ==
  \A c \in Calls :
    Issued(c) =>
      LET opts == Forward(calls[c].kind, calls[c].args)
          req == calls[c].request[1]
      IN  /\ req.body =
               IF opts.formData # None THEN FormBody(opts.formData[1])
               ELSE IF opts.body.t = "string" THEN TextBody(opts.body.v)
               ELSE IF opts.body.t # "undefined"
               THEN TextBody(JSONStringify(opts.body))
               ELSE NoBody
          /\ ("Content-Type" \in DOMAIN CallerHeadersOf(c)
                \/ ("Content-Type" \notin DOMAIN req.headers
                      <=> req.body.kind = "form"))

\* C9: a setApiToken(t) step changes the stored token to t and nothing else
\* of the instance, starts no call, and leaves a state that setApiToken(t)
\* maps to itself; likewise clearToken with the token absent.
C9_TokenOpsIdempotent ==
  [][/\ last_op'.op = "setApiToken" =>
          /\ this' = [this EXCEPT !.api_token = Some(last_op'.arg)]
          /\ setApiToken(this', last_op'.arg) = this'
          /\ calls' = calls
     /\ last_op'.op = "clearToken" =>
          /\ this' = [this EXCEPT !.api_token = None]
          /\ clearToken(this') = this'
          /\ calls' = calls]_vars

\* a token was set over the configured one while a call was in flight
C9_Witness ==
  /\ last_op = Op("setApiToken", "t1")
  /\ this.config.api_token = Some("t0")
  /\ this.api_token = Some("t1")
  /\ \E c \in Calls : InFlight(c)

\* C10: when the handler is over, exactly one of redirect / end / send was
\* performed and nothing was written to the response after it was sent.
C10_FinalizedOnce ==
  ssr.pc \in {"returned", "threw"} =>
    /\ Len(ssr.response.finals) = 1
    /\ ssr.response.late = <<>>
    /\ ssr.pc = "returned"

=============================================================================
